---- MODULE Spec2Model ----
(***************************************************************************)
(* AgriSense: the rule catalog of AgriSenseEngine (src/agrisense.py) run   *)
(* by the forward-chaining engine it inherits (experta KnowledgeEngine,    *)
(* Rete matcher, depth strategy).  Numbers with decimals are scaled by 100 *)
(* (ph 5.49 is 549, confidence 0.8 is 80).  The fact with __factid__ n is  *)
(* facts[n + 1]; indices are used as identities throughout.                *)
(***************************************************************************)
EXTENDS Integers, Sequences, FiniteSets, TLC

VARIABLES facts, memory, agenda, phase, settled, fired, csn_order

vars == <<facts, memory, agenda, phase, settled, fired, csn_order>>

(* ------------------------------ bounds --------------------------------- *)

\* facts the caller declares between two resets
MaxFacts == 2

(* ------------------------------ facts ---------------------------------- *)

Fact(k, a) == [kind |-> k, attrs |-> a]

\* the fact reset() declares; it has no attributes of its own, the one field
\* here only keeps attrs a record
InitialFact == Fact("InitialFact", [initial |-> TRUE])

Crop(a) == Fact("Crop", a)
Soil(a) == Fact("Soil", a)
Lab(a) == Fact("Lab", a)
Symptoms(a) == Fact("Symptoms", a)
Weather(a) == Fact("Weather", a)
PestPresence(a) == Fact("PestPresence", a)
Diagnosis(a) == Fact("Diagnosis", a)
Recommendation(a) == Fact("Recommendation", a)

Has(f, a) == a \in DOMAIN f.attrs

\* a literal constraint that a missing attribute satisfies
Eq_absent_matches(f, a, v) == ~Has(f, a) \/ f.attrs[a] = v

\* a literal constraint: the attribute is present and equal to the literal
Eq(f, a, v) == Has(f, a) /\ f.attrs[a] = v

(* --------------------------- caller inputs ----------------------------- *)

CropFacts ==
    { Crop([name |-> "tomato", stage |-> "flowering"]),
      Crop([name |-> "wheat", stage |-> "vegetative"]) }

SoilFacts ==
    { Soil([type |-> "loam", moisture |-> "adequate", ph |-> 549]),
      Soil([type |-> "loam", moisture |-> "adequate", ph |-> 550]),
      Soil([type |-> "loam", moisture |-> "adequate", ph |-> 780]),
      Soil([type |-> "loam", moisture |-> "adequate", ph |-> 781]),
      Soil([ph |-> 549]) }

LabFacts ==
    { Lab([N |-> 30, P |-> 40, K |-> 45, ph |-> 630]),
      Lab([N |-> 50, P |-> 50, K |-> 50, ph |-> 650]),
      Lab([N |-> 30, P |-> 60, K |-> 60, ph |-> 650]),
      Lab([N |-> 30, P |-> 40]) }

SymptomsFacts ==
    { Symptoms([leaf_spots |-> TRUE, powdery_white |-> TRUE, mosaic |-> TRUE]),
      Symptoms([leaf_spots |-> TRUE, yellowing |-> TRUE, wilting |-> TRUE]),
      Symptoms([leaf_spots |-> TRUE, stem_lesions |-> TRUE, mosaic |-> FALSE]) }

WeatherFacts ==
    { Weather([temp |-> 22, humidity |-> 85, recent_rain_days |-> 5]),
      Weather([temp |-> 25, humidity |-> 75, recent_rain_days |-> 3]) }

PestFacts ==
    { PestPresence([aphids |-> TRUE, whiteflies |-> FALSE, caterpillars |-> FALSE]),
      PestPresence([aphids |-> FALSE, whiteflies |-> TRUE, caterpillars |-> FALSE]),
      PestPresence([aphids |-> TRUE, whiteflies |-> TRUE, caterpillars |-> TRUE]),
      PestPresence([caterpillars |-> TRUE]) }

\* output kinds declared by the caller rather than by a rule
CallerOutputFacts ==
    { Diagnosis([disease |-> "caller", confidence |-> 50]),
      Recommendation([treatment |-> "caller"]) }

InputFacts ==
    CropFacts \cup SoilFacts \cup LabFacts \cup SymptomsFacts
        \cup WeatherFacts \cup PestFacts

\* the facts main() declares, in its order
DemoFacts ==
    << Crop([name |-> "tomato", stage |-> "flowering"]),
       Soil([type |-> "loam", moisture |-> "adequate", ph |-> 630]),
       Lab([N |-> 30, P |-> 40, K |-> 45, ph |-> 630]),
       Symptoms([leaf_spots |-> TRUE, powdery_white |-> TRUE,
                 yellowing |-> FALSE, wilting |-> FALSE]),
       Weather([temp |-> 22, humidity |-> 85, recent_rain_days |-> 5]),
       PestPresence([aphids |-> FALSE, whiteflies |-> FALSE,
                     caterpillars |-> FALSE]) >>

CallerFacts ==
    InputFacts \cup CallerOutputFacts
        \cup { DemoFacts[i] : i \in DOMAIN DemoFacts }

(* ------------------------------ helpers -------------------------------- *)

\* the thresholds taken inclusively
level_inclusive(x) == IF x <= 50 THEN "low" ELSE IF x <= 150 THEN "medium" ELSE "high"

level(x) == IF x < 50 THEN "low" ELSE IF x < 150 THEN "medium" ELSE "high"

interpret_npk(N, P, K) == <<level(N), level(P), level(K)>>

Ids(fs) == DOMAIN fs

OfKind(fs, k) == { i \in Ids(fs) : fs[i].kind = k }

Act(r, s) == [rule |-> r, facts |-> s]

\* the supporting fact of kind k of an activation
Support(fs, act, k) == fs[CHOOSE i \in act.facts : fs[i].kind = k]

(* --------------------------- rule conditions --------------------------- *)

Rules ==
    << "powdery_mildew", "blight_like", "viral_mosaic", "insect_damage_wilt",
       "nitrogen_deficiency_symptom", "fertilizer_npk_evaluation",
       "crop_stage_specific", "soil_ph_issue", "vector_warning", "no_data" >>

\* no rule of the catalog passes salience= to Rule(...)
Salience(r) == 0

Match_powdery_mildew(fs) ==
    { Act("powdery_mildew", {i}) : i \in
        { i \in OfKind(fs, "Symptoms") :
            Eq(fs[i], "leaf_spots", TRUE) /\ Eq(fs[i], "powdery_white", TRUE) } }

Match_blight_like(fs) ==
    { Act("blight_like", {p[1], p[2]}) : p \in
        { p \in OfKind(fs, "Symptoms") \X OfKind(fs, "Weather") :
            /\ Eq(fs[p[1]], "leaf_spots", TRUE)
            /\ Eq(fs[p[1]], "stem_lesions", TRUE)
            /\ Has(fs[p[2]], "humidity")
            /\ fs[p[2]].attrs["humidity"] > 75 } }

Match_viral_mosaic(fs) ==
    { Act("viral_mosaic", {i}) : i \in
        { i \in OfKind(fs, "Symptoms") : Eq(fs[i], "mosaic", TRUE) } }

Match_insect_damage_wilt(fs) ==
    { Act("insect_damage_wilt", {p[1], p[2]}) : p \in
        { p \in OfKind(fs, "Symptoms") \X OfKind(fs, "PestPresence") :
            /\ Eq(fs[p[1]], "wilting", TRUE)
            /\ Eq(fs[p[2]], "caterpillars", TRUE) } }

Match_nitrogen_deficiency_symptom(fs) ==
    { Act("nitrogen_deficiency_symptom", {p[1], p[2]}) : p \in
        { p \in OfKind(fs, "Symptoms") \X OfKind(fs, "Lab") :
            /\ Eq(fs[p[1]], "yellowing", TRUE)
            /\ Has(fs[p[2]], "N")
            /\ fs[p[2]].attrs["N"] < 50 } }

\* a MATCH.x capture needs the attribute to be present
HasNPK(f) == Has(f, "N") /\ Has(f, "P") /\ Has(f, "K")

Match_fertilizer_npk_evaluation(fs) ==
    { Act("fertilizer_npk_evaluation", {i}) : i \in
        { i \in OfKind(fs, "Lab") : HasNPK(fs[i]) } }

\* the join seeing only the Lab facts declared after the Crop fact
Match_crop_stage_specific_crop_first(fs) ==
    { Act("crop_stage_specific", {p[1], p[2]}) : p \in
        { p \in OfKind(fs, "Crop") \X OfKind(fs, "Lab") :
            /\ p[1] < p[2]
            /\ Has(fs[p[1]], "name")
            /\ Has(fs[p[1]], "stage")
            /\ HasNPK(fs[p[2]]) } }

Match_crop_stage_specific(fs) ==
    { Act("crop_stage_specific", {p[1], p[2]}) : p \in
        { p \in OfKind(fs, "Crop") \X OfKind(fs, "Lab") :
            /\ Has(fs[p[1]], "name")
            /\ Has(fs[p[1]], "stage")
            /\ HasNPK(fs[p[2]]) } }

\* TEST(lambda ph: ph is not None and (ph < 5.5 or ph > 7.8)); no input
\* carries None
PhExtreme(ph) == ph < 550 \/ ph > 780

Match_soil_ph_issue(fs) ==
    { Act("soil_ph_issue", {i}) : i \in
        { i \in OfKind(fs, "Soil") :
            /\ Has(fs[i], "type")
            /\ Has(fs[i], "ph")
            /\ PhExtreme(fs[i].attrs["ph"]) } }

\* the disjunction cut down to its first branch
Match_vector_warning_aphids_only(fs) ==
    { Act("vector_warning", {i}) : i \in
        { i \in OfKind(fs, "PestPresence") : Eq(fs[i], "aphids", TRUE) } }

\* a PestPresence fact that satisfies a branch of the disjunction supports an
\* activation; a fact that satisfies both branches is taken to support one
\* activation, not one per branch
Match_vector_warning(fs) ==
    { Act("vector_warning", {i}) : i \in
        { i \in OfKind(fs, "PestPresence") : Eq(fs[i], "aphids", TRUE) } }
    \cup
    { Act("vector_warning", {i}) : i \in
        { i \in OfKind(fs, "PestPresence") : Eq(fs[i], "whiteflies", TRUE) } }

\* the fallback written without its negations: it waits for a Diagnosis and a
\* Recommendation instead of their absence
Match_no_data_unnegated(fs) ==
    { Act("no_data", {i}) : i \in
        { i \in OfKind(fs, "InitialFact") :
            /\ OfKind(fs, "Diagnosis") # {}
            /\ OfKind(fs, "Recommendation") # {} } }

\* the fallback guarded by the absence of a Recommendation only
Match_no_data_without_diagnosis(fs) ==
    { Act("no_data", {i}) : i \in
        { i \in OfKind(fs, "InitialFact") :
            OfKind(fs, "Recommendation") = {} } }

\* a rule whose condition starts with NOT is supported by the InitialFact
Match_no_data(fs) ==
    { Act("no_data", {i}) : i \in
        { i \in OfKind(fs, "InitialFact") :
            /\ OfKind(fs, "Diagnosis") = {}
            /\ OfKind(fs, "Recommendation") = {} } }

AllMatches(fs) ==
    Match_powdery_mildew(fs) \cup Match_blight_like(fs)
        \cup Match_viral_mosaic(fs) \cup Match_insect_damage_wilt(fs)
        \cup Match_nitrogen_deficiency_symptom(fs)
        \cup Match_fertilizer_npk_evaluation(fs)
        \cup Match_crop_stage_specific(fs) \cup Match_soil_ph_issue(fs)
        \cup Match_vector_warning(fs) \cup Match_no_data(fs)

(* ----------------------------- rule bodies ----------------------------- *)

\* each body is the sequence of facts it declares, in order

\* a diagnosis body that also declares a fact of an input kind
powdery_mildew_chained ==
    << Diagnosis([disease |-> "Powdery Mildew", confidence |-> 80,
                  notes |-> "white powder on leaf surfaces"]),
       Recommendation([treatment |-> "fungicide targeting powdery mildew"]),
       Symptoms([mosaic |-> TRUE]) >>

powdery_mildew ==
    << Diagnosis([disease |-> "Powdery Mildew", confidence |-> 80,
                  notes |-> "white powder on leaf surfaces"]),
       Recommendation([treatment |-> "fungicide targeting powdery mildew"]) >>

blight_like ==
    << Diagnosis([disease |-> "Blight-like infection", confidence |-> 85,
                  notes |-> "leaf spots + stem lesions"]),
       Recommendation([treatment |-> "bactericide/fungicide"]) >>

viral_mosaic ==
    << Diagnosis([disease |-> "Viral Mosaic", confidence |-> 90,
                  notes |-> "mosaic patterns on leaves"]),
       Recommendation([treatment |-> "rogue and destroy infected plants"]) >>

insect_damage_wilt ==
    << Diagnosis([disease |-> "Insect damage (larval feeding)", confidence |-> 75,
                  notes |-> "wilting with caterpillars"]),
       Recommendation([treatment |-> "inspect for larvae; Bt"]) >>

nitrogen_deficiency_symptom ==
    << Diagnosis([disease |-> "Nutrient deficiency - Nitrogen", confidence |-> 80,
                  notes |-> "yellowing suggests N deficiency"]),
       Recommendation([treatment |-> "top-dress with nitrogenous fertilizer"]) >>

NitrogenItem == "Apply nitrogen fertilizer"
PhosphorusItem == "Apply phosphorus fertilizer"
PotassiumItem == "Apply potassium fertilizer"
AdequateItem == "Soil NPK levels are adequate"

\* the body without the item for adequate levels: it declares nothing when
\* no level is low
fertilizer_npk_evaluation_silent(N, P, K) ==
    LET lv == interpret_npk(N, P, K)
        r1 == IF lv[1] = "low" THEN <<NitrogenItem>> ELSE <<>>
        r2 == IF lv[2] = "low" THEN Append(r1, PhosphorusItem) ELSE r1
        r3 == IF lv[3] = "low" THEN Append(r2, PotassiumItem) ELSE r2
    IN  IF r3 = <<>> THEN <<>>
        ELSE << Recommendation([fertilizer_recommendations |-> r3]) >>

fertilizer_npk_evaluation(N, P, K) ==
    LET lv == interpret_npk(N, P, K)
        r1 == IF lv[1] = "low" THEN <<NitrogenItem>> ELSE <<>>
        r2 == IF lv[2] = "low" THEN Append(r1, PhosphorusItem) ELSE r1
        r3 == IF lv[3] = "low" THEN Append(r2, PotassiumItem) ELSE r2
        recs == IF r3 = <<>> THEN <<AdequateItem>> ELSE r3
    IN  << Recommendation([fertilizer_recommendations |-> recs]) >>

NitrogenAdvice == "Increase nitrogen to support vegetative growth"
PotassiumAdvice == "Increase potassium to support flowering/fruition"

\* the body declaring its Recommendation whether or not it holds advice
crop_stage_specific_unguarded(stage, N, P, K) ==
    LET lv == interpret_npk(N, P, K)
        a1 == IF stage = "vegetative" /\ lv[1] = "low"
                THEN <<NitrogenAdvice>> ELSE <<>>
        advice == IF stage \in {"flowering", "fruiting"} /\ lv[3] = "low"
                    THEN Append(a1, PotassiumAdvice) ELSE a1
    IN  << Recommendation([stage_advice |-> advice]) >>

\* the potassium advice decided on the nitrogen level
crop_stage_specific_on_nitrogen(stage, N, P, K) ==
    LET lv == interpret_npk(N, P, K)
        a1 == IF stage = "vegetative" /\ lv[1] = "low"
                THEN <<NitrogenAdvice>> ELSE <<>>
        advice == IF stage \in {"flowering", "fruiting"} /\ lv[1] = "low"
                    THEN Append(a1, PotassiumAdvice) ELSE a1
    IN  IF advice # <<>>
          THEN << Recommendation([stage_advice |-> advice]) >>
          ELSE <<>>

crop_stage_specific(stage, N, P, K) ==
    LET lv == interpret_npk(N, P, K)
        a1 == IF stage = "vegetative" /\ lv[1] = "low"
                THEN <<NitrogenAdvice>> ELSE <<>>
        advice == IF stage \in {"flowering", "fruiting"} /\ lv[3] = "low"
                    THEN Append(a1, PotassiumAdvice) ELSE a1
    IN  IF advice # <<>>
          THEN << Recommendation([stage_advice |-> advice]) >>
          ELSE <<>>

\* a body that, besides its note, declares the Soil fact with a neutral ph
soil_ph_issue_amends(ph) ==
    LET note == IF ph < 550 THEN [text |-> "acidic", ph |-> ph]
                             ELSE [text |-> "alkaline", ph |-> ph]
    IN  << Recommendation([soil_ph_note |-> note]),
           Soil([type |-> "loam", moisture |-> "adequate", ph |-> 650]) >>

\* the note is the text for the side of the range plus the formatted value
soil_ph_issue(ph) ==
    LET note == IF ph < 550 THEN [text |-> "acidic", ph |-> ph]
                             ELSE [text |-> "alkaline", ph |-> ph]
    IN  << Recommendation([soil_ph_note |-> note]) >>

vector_warning ==
    << Recommendation([treatment |-> "Vectors detected: control aphids/whiteflies"]),
       Diagnosis([disease |-> "High vector presence", confidence |-> 70]) >>

no_data ==
    << Recommendation([general |-> "Insufficient symptom/lab data"]) >>

\* activation.rule(self, **activation.context)
Body(fs, act) ==
    CASE act.rule = "powdery_mildew" -> powdery_mildew
      [] act.rule = "blight_like" -> blight_like
      [] act.rule = "viral_mosaic" -> viral_mosaic
      [] act.rule = "insect_damage_wilt" -> insect_damage_wilt
      [] act.rule = "nitrogen_deficiency_symptom" -> nitrogen_deficiency_symptom
      [] act.rule = "fertilizer_npk_evaluation" ->
            LET l == Support(fs, act, "Lab").attrs
            IN  fertilizer_npk_evaluation(l["N"], l["P"], l["K"])
      [] act.rule = "crop_stage_specific" ->
            LET l == Support(fs, act, "Lab").attrs
                c == Support(fs, act, "Crop").attrs
            IN  crop_stage_specific(c["stage"], l["N"], l["P"], l["K"])
      [] act.rule = "soil_ph_issue" ->
            soil_ph_issue(Support(fs, act, "Soil").attrs["ph"])
      [] act.rule = "vector_warning" -> vector_warning
      [] act.rule = "no_data" -> no_data

(* ------------------------------ fact list ------------------------------ *)

\* FactList.declare: a fact equal to one already held is not added again
FactListDeclare(fs, f) ==
    IF \E i \in Ids(fs) : fs[i] = f THEN fs ELSE Append(fs, f)

RECURSIVE DeclareAll(_, _)
DeclareAll(fs, out) ==
    IF out = <<>> THEN fs
    ELSE DeclareAll(FactListDeclare(fs, Head(out)), Tail(out))

\* the facts the caller declared, as opposed to those a rule body declared
CallerIds(fs) == { i \in Ids(fs) : fs[i] \in CallerFacts }

(* ------------------------- agenda and strategy ------------------------- *)

SetMax(S) == CHOOSE m \in S : \A x \in S : x <= m

\* the comparison stopping at the newest fact of each activation
FactsLess_newest_only(A, B) ==
    IF A = {} THEN B # {}
    ELSE IF B = {} THEN FALSE
    ELSE SetMax(A) < SetMax(B)

\* comparison of the fact ids of two activations, each sorted newest first
RECURSIVE FactsLess(_, _)
FactsLess(A, B) ==
    IF A = {} THEN B # {}
    ELSE IF B = {} THEN FALSE
    ELSE LET ma == SetMax(A)
             mb == SetMax(B)
         IN  IF ma # mb THEN ma < mb
             ELSE FactsLess(A \ {ma}, B \ {mb})

\* DepthStrategy.get_key: (salience, fact ids newest first)
KeyLess(a, b) ==
    \/ Salience(a.rule) < Salience(b.rule)
    \/ Salience(a.rule) = Salience(b.rule) /\ FactsLess(a.facts, b.facts)

KeyEqual(a, b) == ~KeyLess(a, b) /\ ~KeyLess(b, a)

CsnPos(order, r) == CHOOSE i \in DOMAIN order : order[i] = r

\* a fires before b: the greater key first; activations of equal key keep the
\* order in which the matcher handed them over, which is the iteration order
\* of its set of conflict-set nodes
Before(a, b, order) ==
    \/ KeyLess(b, a)
    \/ KeyEqual(a, b) /\ CsnPos(order, a.rule) < CsnPos(order, b.rule)

InsertAct(ag, a, order) ==
    LET k == Cardinality({ i \in DOMAIN ag : Before(ag[i], a, order) })
    IN  SubSeq(ag, 1, k) \o <<a>> \o SubSeq(ag, k + 1, Len(ag))

RECURSIVE InsertAll(_, _, _)
InsertAll(ag, S, order) ==
    IF S = {} THEN ag
    ELSE LET a == CHOOSE x \in S : TRUE
         IN  InsertAll(InsertAct(ag, a, order), S \ {a}, order)

RemoveActs(ag, S) == SelectSeq(ag, LAMBDA a : a \notin S)

\* matcher.changes: the activations that appeared and those that went away
\* since the conflict sets were last read
get_activations(fs, mem) ==
    [added |-> AllMatches(fs) \ mem, removed |-> mem \ AllMatches(fs)]

\* the agenda keeping the activations the matcher reports as gone
update_agenda_keeps_removed(ag, added, removed, order) ==
    InsertAll(ag, added, order)

update_agenda(ag, added, removed, order) ==
    InsertAll(RemoveActs(ag, removed), added, order)

\* the agenda after get_activations + update_agenda on the current facts
Refreshed(fs, mem, ag, order) ==
    LET ch == get_activations(fs, mem)
    IN  update_agenda(ag, ch.added, ch.removed, order)

\* the node orders that differ on activations that can share a key: only
\* powdery_mildew and viral_mosaic are supported by the same single fact
SwappedRules ==
    [ i \in DOMAIN Rules |->
        IF Rules[i] = "powdery_mildew" THEN "viral_mosaic"
        ELSE IF Rules[i] = "viral_mosaic" THEN "powdery_mildew"
        ELSE Rules[i] ]

CsnOrders == { Rules, SwappedRules }

(* ------------------------------- engine -------------------------------- *)

running == phase = "running"

\* the engine's own state, as a value
Engine == [facts |-> facts, memory |-> memory, agenda |-> agenda, fired |-> fired]

\* reset(): new agenda and fact list, matcher reset, InitialFact declared
ResetEngine(order) ==
    [facts |-> <<InitialFact>>,
     memory |-> AllMatches(<<InitialFact>>),
     agenda |-> Refreshed(<<InitialFact>>, {}, <<>>, order),
     fired |-> <<>>]

\* a declare after which the matcher hands over every activation again, those
\* it had handed over before included
EngineDeclare_rematch(e, f, order) ==
    LET fs == FactListDeclare(e.facts, f)
    IN  [facts |-> fs,
         memory |-> AllMatches(fs),
         agenda |-> Refreshed(fs, {}, e.agenda, order),
         fired |-> e.fired]

\* KnowledgeEngine.declare outside run(): the fact list takes the fact, then
\* the agenda is brought up to date
EngineDeclare(e, f, order) ==
    LET fs == FactListDeclare(e.facts, f)
    IN  [facts |-> fs,
         memory |-> AllMatches(fs),
         agenda |-> Refreshed(fs, e.memory, e.agenda, order),
         fired |-> e.fired]

RECURSIVE EngineDeclareAll(_, _, _)
EngineDeclareAll(e, fseq, order) ==
    IF fseq = <<>> THEN e
    ELSE EngineDeclareAll(EngineDeclare(e, Head(fseq), order), Tail(fseq), order)

\* the agenda run() sees at the top of an iteration
LoopAgenda(e, order) == Refreshed(e.facts, e.memory, e.agenda, order)

\* one iteration of the loop of run() whose agenda ag is not empty: the first
\* activation leaves the agenda and its rule body runs; what the body declares
\* reaches the matcher at the top of the next iteration
FireNext(e, ag) ==
    LET act == Head(ag)
        out == Body(e.facts, act)
    IN  [facts |-> DeclareAll(e.facts, out),
         memory |-> AllMatches(e.facts),
         agenda |-> Tail(ag),
         fired |-> Append(e.fired,
                          [rule |-> act.rule, facts |-> act.facts, out |-> out])]

\* the whole loop of run()
RECURSIVE RunLoop(_, _)
RunLoop(e, order) ==
    LET ag == LoopAgenda(e, order)
    IN  IF ag = <<>>
          THEN [facts |-> e.facts, memory |-> AllMatches(e.facts),
                agenda |-> <<>>, fired |-> e.fired]
          ELSE RunLoop(FireNext(e, ag), order)

Init ==
    /\ csn_order \in CsnOrders
    /\ facts = ResetEngine(csn_order).facts
    /\ memory = ResetEngine(csn_order).memory
    /\ agenda = ResetEngine(csn_order).agenda
    /\ fired = ResetEngine(csn_order).fired
    /\ phase = "idle"
    /\ settled = FALSE

SetEngine(e) ==
    /\ facts' = e.facts
    /\ memory' = e.memory
    /\ agenda' = e.agenda
    /\ fired' = e.fired

\* engine = AgriSenseEngine(); engine.reset()
Construct ==
    /\ ~running
    /\ csn_order' \in CsnOrders
    /\ \E e \in {ResetEngine(csn_order')} : SetEngine(e)
    /\ phase' = "idle"
    /\ settled' = FALSE

\* a reset that clears the caller's facts and the record of firings but keeps
\* the Diagnosis and Recommendation facts the rules declared
Reset_keeps_outputs ==
    /\ ~running
    /\ \E fs \in {SelectSeq(facts, LAMBDA f : f \notin CallerFacts)} :
          \E e \in {[facts |-> fs, memory |-> AllMatches(fs),
                     agenda |-> Refreshed(fs, {}, <<>>, csn_order),
                     fired |-> <<>>]} : SetEngine(e)
    /\ phase' = "idle"
    /\ settled' = FALSE
    /\ UNCHANGED csn_order

\* engine.reset() on the same engine
Reset ==
    /\ ~running
    /\ \E e \in {ResetEngine(csn_order)} : SetEngine(e)
    /\ phase' = "idle"
    /\ settled' = FALSE
    /\ UNCHANGED csn_order

\* engine.declare(f) by the caller; like main() and the form, the caller
\* declares its facts before it runs the engine
Declare(f) ==
    /\ phase \in {"idle", "ready"}
    /\ Cardinality(CallerIds(facts)) < MaxFacts
    /\ \E e \in {EngineDeclare(Engine, f, csn_order)} : SetEngine(e)
    /\ phase' = "ready"
    /\ settled' = FALSE
    /\ UNCHANGED csn_order

\* engine.declare(f) by the caller after run() has returned
DeclareLate(f) ==
    /\ phase = "quiescent"
    /\ Cardinality(CallerIds(facts)) < MaxFacts
    /\ \E e \in {EngineDeclare(Engine, f, csn_order)} : SetEngine(e)
    /\ phase' = "ready"
    /\ settled' = FALSE
    /\ UNCHANGED csn_order

\* the six declarations of main(), right after its reset
Demo ==
    /\ phase = "idle"
    /\ \E e \in {EngineDeclareAll(Engine, DemoFacts, csn_order)} : SetEngine(e)
    /\ phase' = "ready"
    /\ settled' = FALSE
    /\ UNCHANGED csn_order

\* run() starting from a matcher that forgot what it had handed over
Run_rematch ==
    /\ ~running
    /\ phase' = "running"
    /\ memory' = {}
    /\ UNCHANGED <<facts, agenda, settled, fired, csn_order>>

\* engine.run() is entered
Run ==
    /\ ~running
    /\ phase' = "running"
    /\ UNCHANGED <<facts, memory, agenda, settled, fired, csn_order>>

\* an iteration of the loop of run() that finds an activation
Fire ==
    /\ running
    /\ \E ag \in {LoopAgenda(Engine, csn_order)} :
          /\ ag # <<>>
          /\ \E e \in {FireNext(Engine, ag)} : SetEngine(e)
    /\ UNCHANGED <<phase, settled, csn_order>>

\* the iteration that finds the agenda empty: run() returns
Halt ==
    /\ running
    /\ \E ag \in {LoopAgenda(Engine, csn_order)} : ag = <<>>
    /\ agenda' = <<>>
    /\ memory' = AllMatches(facts)
    /\ phase' = "quiescent"
    /\ settled' = TRUE
    /\ UNCHANGED <<facts, fired, csn_order>>

Next ==
    \/ Construct
    \/ Reset
    \/ \E f \in InputFacts \cup CallerOutputFacts : Declare(f)
    \/ Demo
    \/ Run
    \/ Fire
    \/ Halt

Spec == Init /\ [][Next]_vars

\* the facts declared one by one in the runs checked for termination: one
\* that activates each rule of the catalog, and a caller's Diagnosis
LiveFacts ==
    { Crop([name |-> "tomato", stage |-> "flowering"]),
      Soil([type |-> "loam", moisture |-> "adequate", ph |-> 549]),
      Lab([N |-> 30, P |-> 40, K |-> 45, ph |-> 630]),
      Symptoms([leaf_spots |-> TRUE, powdery_white |-> TRUE, mosaic |-> TRUE]),
      Symptoms([leaf_spots |-> TRUE, yellowing |-> TRUE, wilting |-> TRUE]),
      Symptoms([leaf_spots |-> TRUE, stem_lesions |-> TRUE, mosaic |-> FALSE]),
      Weather([temp |-> 22, humidity |-> 85, recent_rain_days |-> 5]),
      PestPresence([aphids |-> TRUE, whiteflies |-> TRUE, caterpillars |-> TRUE]),
      Diagnosis([disease |-> "caller", confidence |-> 50]) }

LiveNext ==
    \/ Construct
    \/ Reset
    \/ \E f \in LiveFacts : Declare(f)
    \/ Demo
    \/ Run
    \/ Fire
    \/ Halt

\* run() is a loop without suspension points: an enabled iteration is taken
FairSpec == Init /\ [][LiveNext]_vars /\ WF_vars(Fire) /\ WF_vars(Halt)

\* the sessions of FairSpec without its fairness conditions
SmallSpec == Init /\ [][LiveNext]_vars

\* the state main() ends in: its six facts declared and run() returned
InitAfterRun ==
    /\ csn_order \in CsnOrders
    /\ \E e \in {RunLoop(EngineDeclareAll(ResetEngine(csn_order), DemoFacts,
                                           csn_order), csn_order)} :
          /\ facts = e.facts
          /\ memory = e.memory
          /\ agenda = e.agenda
          /\ fired = e.fired
    /\ phase = "quiescent"
    /\ settled = TRUE

\* an engine that has run once and is used again
ResetSpec == InitAfterRun /\ [][LiveNext]_vars

\* the facts declared one by one in the sessions that go on declaring after
\* run() has returned; a PestPresence fact satisfies one branch of
\* vector_warning at most (both branches at once: see C16)
LateFacts ==
    { Crop([name |-> "tomato", stage |-> "flowering"]),
      Soil([type |-> "loam", moisture |-> "adequate", ph |-> 549]),
      Lab([N |-> 30, P |-> 40, K |-> 45, ph |-> 630]),
      Symptoms([leaf_spots |-> TRUE, powdery_white |-> TRUE, mosaic |-> TRUE]),
      Symptoms([leaf_spots |-> TRUE, yellowing |-> TRUE, wilting |-> TRUE]),
      Weather([temp |-> 22, humidity |-> 85, recent_rain_days |-> 5]),
      PestPresence([aphids |-> TRUE, whiteflies |-> FALSE, caterpillars |-> TRUE]),
      Diagnosis([disease |-> "caller", confidence |-> 50]) }

LateNext ==
    \/ Construct
    \/ Reset
    \/ \E f \in LateFacts : Declare(f)
    \/ \E f \in LateFacts : DeclareLate(f)
    \/ Demo
    \/ Run
    \/ Fire
    \/ Halt

\* a session in which declare and run alternate between two resets
LateSpec == Init /\ [][LateNext]_vars

(* ------------------------- vocabulary of the claims -------------------- *)

Quiescent == phase = "quiescent"

FiredRules == [ k \in DOMAIN fired |-> fired[k].rule ]

\* the firings of rule r supported by exactly the facts S
Firings(r, S) == { k \in DOMAIN fired : fired[k].rule = r /\ fired[k].facts = S }

FiringsOf(r) == { k \in DOMAIN fired : fired[k].rule = r }

CallerDeclared(k) == { i \in CallerIds(facts) : facts[i].kind = k }

OutputIds(fs) == OfKind(fs, "Diagnosis") \cup OfKind(fs, "Recommendation")

\* the output facts that rules declared
Outputs(fs) == { fs[i] : i \in OutputIds(fs) \ CallerIds(fs) }

GeneralRecs(fs) == { i \in OfKind(fs, "Recommendation") : Has(fs[i], "general") }

TypeOK ==
    /\ phase \in {"idle", "ready", "running", "quiescent"}
    /\ settled \in BOOLEAN
    /\ csn_order \in CsnOrders
    /\ Len(facts) >= 1 /\ facts[1] = InitialFact

InSeq(x, sq) == \E j \in DOMAIN sq : sq[j] = x

Range(sq) == { sq[j] : j \in DOMAIN sq }

\* the InitialFact and the caller's facts: the fact base run() starts from
InitialPart(fs) == SelectSeq(fs, LAMBDA f : f = InitialFact \/ f \in CallerFacts)

NoCallerOutput ==
    CallerDeclared("Diagnosis") = {} /\ CallerDeclared("Recommendation") = {}

FallbackOnly ==
    /\ FiredRules = <<"no_data">>
    /\ OfKind(facts, "Diagnosis") = {}
    /\ Cardinality(OfKind(facts, "Recommendation")) = 1
    /\ \A i \in OfKind(facts, "Recommendation") :
          facts[i].attrs = [general |-> "Insufficient symptom/lab data"]

(* -------------------------------- C1 ----------------------------------- *)

\* C1, as stated: whenever the caller declared no Diagnosis and no
\* Recommendation fact, a finished run fired the fallback rule no_data and
\* nothing else, and its general Recommendation is the only output fact.
C1_FallbackWithoutCallerOutput ==
    (Quiescent /\ NoCallerOutput) => FallbackOnly

\* C1, amended: when the caller declared no Diagnosis and no Recommendation
\* fact and its facts activate no other rule (as with an empty fact base), a
\* finished run fired exactly one activation, that of no_data, and the only
\* output fact is its general Recommendation, with no Diagnosis.
C1_FallbackAlone ==
    ( /\ Quiescent
      /\ NoCallerOutput
      /\ \A a \in AllMatches(InitialPart(facts)) : a.rule = "no_data" )
    => FallbackOnly

\* a finished run on the fact base reset() leaves
C1_Witness ==
    Quiescent /\ CallerIds(facts) = {} /\ FiredRules = <<"no_data">>

(* -------------------------------- C2 ----------------------------------- *)

\* C2: once the caller has declared a Diagnosis fact, no_data never fires and
\* no Recommendation with the attribute general exists, whatever other facts
\* were declared.
C2_DiagnosisSuppressesFallback ==
    CallerDeclared("Diagnosis") # {}
    => FiringsOf("no_data") = {} /\ GeneralRecs(facts) = {}

\* a finished run with a caller's Diagnosis and another fact whose rule fired
C2_Witness ==
    /\ Quiescent
    /\ CallerDeclared("Diagnosis") # {}
    /\ Cardinality(CallerIds(facts)) >= 2
    /\ fired # <<>>

(* -------------------------------- C3 ----------------------------------- *)

StageAdvice(out) == IF out = <<>> THEN <<>> ELSE out[1].attrs["stage_advice"]

\* C3: after a run, every Lab fact with N, P, K has fired
\* fertilizer_npk_evaluation once, and with every Crop fact with name and
\* stage it has fired crop_stage_specific once; that firing's advice holds
\* the potassium advice iff the stage is flowering or fruiting and K < 50,
\* the nitrogen advice iff the stage is vegetative and N < 50, and it declares
\* nothing when neither holds.  Lab{30,40,45} with a flowering Crop gives the
\* three fertilizer items and the potassium advice alone.
C3_JoinOnLab ==
    Quiescent =>
      /\ \A l \in OfKind(facts, "Lab") : HasNPK(facts[l]) =>
            /\ Cardinality(Firings("fertilizer_npk_evaluation", {l})) = 1
            /\ \A c \in OfKind(facts, "Crop") :
                  (Has(facts[c], "name") /\ Has(facts[c], "stage")) =>
                    /\ Cardinality(Firings("crop_stage_specific", {c, l})) = 1
                    /\ \A k \in Firings("crop_stage_specific", {c, l}) :
                          LET adv == StageAdvice(fired[k].out)
                              stage == facts[c].attrs["stage"]
                              potassium == stage \in {"flowering", "fruiting"}
                                              /\ facts[l].attrs["K"] < 50
                              nitrogen == stage = "vegetative"
                                              /\ facts[l].attrs["N"] < 50
                          IN  /\ InSeq(PotassiumAdvice, adv) <=> potassium
                              /\ InSeq(NitrogenAdvice, adv) <=> nitrogen
                              /\ (~potassium /\ ~nitrogen) => fired[k].out = <<>>
                              /\ Range(fired[k].out) \subseteq Range(facts)
      /\ ( /\ DemoFacts[1] \in Range(facts)
           /\ DemoFacts[3] \in Range(facts) )
         => /\ Recommendation([fertilizer_recommendations |->
                  <<NitrogenItem, PhosphorusItem, PotassiumItem>>]) \in Range(facts)
            /\ Recommendation([stage_advice |-> <<PotassiumAdvice>>]) \in Range(facts)

\* the run of main(): both rules fired on its Lab fact
C3_Witness ==
    /\ Quiescent
    /\ Cardinality(CallerIds(facts)) = Len(DemoFacts)
    /\ FiringsOf("fertilizer_npk_evaluation") # {}
    /\ FiringsOf("crop_stage_specific") # {}

(* -------------------------------- C4 ----------------------------------- *)

\* C4: after a run, for every Soil fact that carries ph (with or without
\* other attributes) soil_ph_issue has fired iff ph < 5.5 or ph > 7.8, and
\* the note it declared is the acidic one iff ph < 5.5, the alkaline one iff
\* ph > 7.8.
C4_PhRuleOnEverySoilWithPh ==
    Quiescent =>
      \A i \in OfKind(facts, "Soil") : Has(facts[i], "ph") =>
        LET ph == facts[i].attrs["ph"]
        IN  /\ Firings("soil_ph_issue", {i}) # {} <=> (ph < 550 \/ ph > 780)
            /\ \A k \in Firings("soil_ph_issue", {i}) :
                  LET note == fired[k].out[1].attrs["soil_ph_note"]
                  IN  /\ note.text = "acidic" <=> ph < 550
                      /\ note.text = "alkaline" <=> ph > 780

(* -------------------------------- C5 ----------------------------------- *)

\* C5: a run() entered after a run reached quiescence, with no declaration
\* in between, fires no activation and leaves the fact base as it was.
C5_RerunIdempotent ==
    [][(settled /\ running) => (facts' = facts /\ fired' = fired)]_vars

\* the second run() in progress, after a first one that fired rules
C5_Witness ==
    settled /\ running /\ Len(fired) >= 2 /\ OutputIds(facts) # {}

(* -------------------------------- C6 ----------------------------------- *)

VectorWarningOutputs ==
    { Recommendation([treatment |-> "Vectors detected: control aphids/whiteflies"]),
      Diagnosis([disease |-> "High vector presence", confidence |-> 70]) }

\* C6: after a run whose only PestPresence fact has exactly one of aphids
\* and whiteflies true and the other false, vector_warning has fired exactly
\* once and its treatment Recommendation and its Diagnosis are in the fact
\* base; when both are false it has not fired.
C6_VectorWarningPerBranch ==
    (Quiescent /\ Cardinality(OfKind(facts, "PestPresence")) = 1) =>
      \A p \in OfKind(facts, "PestPresence") :
        LET f == facts[p]
            aphids == Has(f, "aphids") /\ f.attrs["aphids"] = TRUE
            noAphids == Has(f, "aphids") /\ f.attrs["aphids"] = FALSE
            whiteflies == Has(f, "whiteflies") /\ f.attrs["whiteflies"] = TRUE
            noWhiteflies == Has(f, "whiteflies") /\ f.attrs["whiteflies"] = FALSE
        IN  /\ ((aphids /\ noWhiteflies) \/ (noAphids /\ whiteflies)) =>
                  /\ Cardinality(FiringsOf("vector_warning")) = 1
                  /\ Firings("vector_warning", {p}) # {}
                  /\ VectorWarningOutputs \subseteq Range(facts)
            /\ (noAphids /\ noWhiteflies) => FiringsOf("vector_warning") = {}

\* a finished run on a single PestPresence fact with whiteflies alone
C6_Witness ==
    /\ Quiescent
    /\ OfKind(facts, "PestPresence") # {}
    /\ \A p \in OfKind(facts, "PestPresence") :
          facts[p].attrs = [aphids |-> FALSE, whiteflies |-> TRUE,
                            caterpillars |-> FALSE]
    /\ Cardinality(FiringsOf("vector_warning")) = 1

(* -------------------------------- C7 ----------------------------------- *)

CallerSeq(fs) == SelectSeq(fs, LAMBDA f : f \in CallerFacts)

\* reset, the caller's declarations in their order, and run, on an engine
\* whose conflict-set nodes come in the given order
Replay(order) ==
    RunLoop(EngineDeclareAll(ResetEngine(order), CallerSeq(facts), order), order)

\* two activations the strategy's key does not tell apart
TiePair(a, b) ==
    a.facts = b.facts /\ {a.rule, b.rule} = {"powdery_mildew", "viral_mosaic"}

C8_Termination ==
    /\ running ~> Quiescent
    /\ [][running => AllMatches(facts') \subseteq AllMatches(facts)]_vars
    /\ [](Len(fired) <= Cardinality(AllMatches(InitialPart(facts))))

\* the run of main() finished after several firings
C8_Witness ==
    Quiescent /\ Len(fired) >= 3 /\ Len(facts) > Len(InitialPart(facts))

(* -------------------------------- C9 ----------------------------------- *)

DiagnosisRules ==
    { "powdery_mildew", "blight_like", "viral_mosaic", "insect_damage_wilt",
      "nitrogen_deficiency_symptom" }

FertilizerRules ==
    { "fertilizer_npk_evaluation", "crop_stage_specific", "soil_ph_issue" }

\* C9: of the activations eligible together, those of the diagnosis rules
\* fire before those of the fertilizer rules, in whatever order the caller
\* declared its facts: no fertilizer rule has fired before a diagnosis rule.
C9_DiagnosisBeforeFertilizer ==
    \A i, j \in DOMAIN fired :
      i < j => ~(fired[i].rule \in FertilizerRules /\ fired[j].rule \in DiagnosisRules)

(* -------------------------------- C10 ---------------------------------- *)

IsTrue(f, a) == Has(f, a) /\ f.attrs[a] = TRUE

\* C10: a rule that requires an attribute to be true has only ever fired on
\* facts that carry the attribute with the value true; a fact lacking the
\* attribute supported none of its firings.
C10_AbsentIsNotTrue ==
    \A k \in DOMAIN fired :
      LET r == fired[k].rule
          S == Support(facts, fired[k], "Symptoms")
          P == Support(facts, fired[k], "PestPresence")
      IN  /\ r = "powdery_mildew" =>
                IsTrue(S, "leaf_spots") /\ IsTrue(S, "powdery_white")
          /\ r = "blight_like" =>
                IsTrue(S, "leaf_spots") /\ IsTrue(S, "stem_lesions")
          /\ r = "viral_mosaic" => IsTrue(S, "mosaic")
          /\ r = "insect_damage_wilt" =>
                IsTrue(S, "wilting") /\ IsTrue(P, "caterpillars")
          /\ r = "nitrogen_deficiency_symptom" => IsTrue(S, "yellowing")
          /\ r = "vector_warning" =>
                IsTrue(P, "aphids") \/ IsTrue(P, "whiteflies")

\* a finished run on a Symptoms fact without mosaic and stem_lesions and a
\* PestPresence fact without aphids and whiteflies, on which another rule fired
C10_Witness ==
    /\ Quiescent
    /\ \E s \in OfKind(facts, "Symptoms") :
          ~Has(facts[s], "mosaic") /\ ~Has(facts[s], "stem_lesions")
            /\ IsTrue(facts[s], "leaf_spots")
    /\ \E p \in OfKind(facts, "PestPresence") :
          ~Has(facts[p], "aphids") /\ ~Has(facts[p], "whiteflies")
    /\ FiringsOf("insect_damage_wilt") # {}
    /\ FiringsOf("viral_mosaic") = {}
    /\ FiringsOf("vector_warning") = {}

(* -------------------------------- C11 ---------------------------------- *)

NewIds == Ids(facts') \ Ids(facts)

Idle == phase = "idle"

\* C12, as stated: a reset leaves no caller-declared fact and no Diagnosis or
\* Recommendation fact in the fact base, an empty agenda and an empty record
\* of firings, and a run after it ends with the outputs of a fresh engine
\* given the same declarations.
C12_ResetEmptiesAgenda ==
    /\ [][Idle' =>
            /\ CallerIds(facts') = {}
            /\ OutputIds(facts') = {}
            /\ agenda' = <<>>
            /\ fired' = <<>>]_vars
    /\ [](Quiescent => Outputs(facts) = Outputs(Replay(csn_order).facts))

\* C12, amended: a reset leaves the fact base holding the InitialFact alone,
\* an empty record of firings, and on the agenda nothing but the activation
\* of no_data on the InitialFact, as on a fresh engine; a run after it ends
\* with the fact base and the firings of a fresh engine given the same
\* declarations.
C12_ResetLeavesFreshEngine ==
    /\ [][Idle' =>
            /\ facts' = <<InitialFact>>
            /\ agenda' = <<Act("no_data", {1})>>
            /\ memory' = {Act("no_data", {1})}
            /\ fired' = <<>>]_vars
    /\ [](Quiescent =>
            /\ facts = Replay(csn_order).facts
            /\ fired = Replay(csn_order).fired)

\* a finished run, with outputs, on facts other than those of the run the
\* engine had done before: a reset lies between the two
C12_Witness ==
    /\ Quiescent
    /\ CallerSeq(facts) # DemoFacts
    /\ CallerIds(facts) # {}
    /\ OutputIds(facts) \ CallerIds(facts) # {}

(* -------------------------------- C14 ---------------------------------- *)

RecommendationAttrs ==
    { "treatment", "stage_advice", "fertilizer_recommendations",
      "soil_ph_note", "general" }

\* the facts of the fact base that a rule body declared
RuleDeclared(fs) == { fs[i] : i \in Ids(fs) \ (CallerIds(fs) \cup {1}) }

\* C14: in every reachable state, every Diagnosis fact a rule declared has
\* the attributes disease and confidence (and besides them notes at most),
\* every Recommendation fact a rule declared has exactly one attribute, one
\* of treatment, stage_advice, fertilizer_recommendations, soil_ph_note and
\* general, and a stage_advice or fertilizer_recommendations value is never
\* an empty sequence.
C14_OutputShape ==
    \A f \in RuleDeclared(facts) :
      /\ f.kind \in {"Diagnosis", "Recommendation"}
      /\ f.kind = "Diagnosis" =>
            /\ {"disease", "confidence"} \subseteq DOMAIN f.attrs
            /\ DOMAIN f.attrs \subseteq {"disease", "confidence", "notes"}
      /\ f.kind = "Recommendation" =>
            /\ DOMAIN f.attrs \subseteq RecommendationAttrs
            /\ Cardinality(DOMAIN f.attrs) = 1
            /\ Has(f, "stage_advice") => f.attrs["stage_advice"] # <<>>
            /\ Has(f, "fertilizer_recommendations") =>
                  f.attrs["fertilizer_recommendations"] # <<>>

\* a finished run in which crop_stage_specific fired without advice to give
\* and fertilizer_npk_evaluation found nothing low
C14_Witness ==
    /\ Quiescent
    /\ \E k \in FiringsOf("crop_stage_specific") : fired[k].out = <<>>
    /\ Recommendation([fertilizer_recommendations |-> <<AdequateItem>>])
          \in RuleDeclared(facts)

(* -------------------------------- C15 ---------------------------------- *)

\* some rule other than no_data declared a Diagnosis or a Recommendation
OtherRuleDeclared ==
    \E k \in DOMAIN fired : fired[k].rule # "no_data" /\ fired[k].out # <<>>

\* C15: after a run on caller facts of the input kinds only, in whatever
\* order they were declared, a Recommendation with the attribute general
\* exists iff no other rule declared a Diagnosis or a Recommendation, and
\* where it exists there is no Diagnosis fact and no other Recommendation
\* fact; while other activations are pending no_data is the last on the
\* agenda, and it leaves the agenda once a Diagnosis or a Recommendation
\* fact exists.
C15_FallbackOnlyWhenNothingElse ==
    /\ (Quiescent /\ NoCallerOutput) =>
          /\ GeneralRecs(facts) # {} <=> ~OtherRuleDeclared
          /\ GeneralRecs(facts) # {} =>
                /\ OfKind(facts, "Diagnosis") = {}
                /\ OfKind(facts, "Recommendation") = GeneralRecs(facts)
                /\ Cardinality(GeneralRecs(facts)) = 1
    /\ LET ag == LoopAgenda(Engine, csn_order)
       IN  /\ \A i \in DOMAIN ag : ag[i].rule = "no_data" => i = Len(ag)
           /\ OutputIds(facts) # {} => \A i \in DOMAIN ag : ag[i].rule # "no_data"

\* a finished run in which the pending fallback gave way to another rule
C15_Witness ==
    /\ Quiescent
    /\ NoCallerOutput
    /\ OtherRuleDeclared
    /\ GeneralRecs(facts) = {}
    /\ \E k \in DOMAIN fired : fired[k].out = <<>>

(* -------------------------------- C17 ---------------------------------- *)

OutputKinds == { "Diagnosis", "Recommendation" }

\* C17: in every step of run(), every fact of the fact base is still there
\* afterwards under the same id with the same attribute values, and every
\* fact the step adds is a Diagnosis or a Recommendation; no body has declared
\* a fact of an input kind.
C17_FiringOnlyAddsOutputs ==
    /\ [][running =>
            /\ Len(facts') >= Len(facts)
            /\ \A i \in Ids(facts) : facts'[i] = facts[i]
            /\ \A i \in Ids(facts') \ Ids(facts) : facts'[i].kind \in OutputKinds]_vars
    /\ [](\A k \in DOMAIN fired : \A j \in DOMAIN fired[k].out :
            fired[k].out[j].kind \in OutputKinds)

\* a run() in progress on facts of four input kinds or more, whose firings
\* have added facts to the fact base
C17_Witness ==
    /\ running
    /\ Len(fired) >= 2
    /\ Len(facts) > Len(InitialPart(facts)) + 2
    /\ Cardinality({ facts[i].kind : i \in CallerIds(facts) }) >= 4

(* -------------------------------- C18 ---------------------------------- *)

\* the items for the values below 50, nitrogen first, potassium last
LowItems(N, P, K) ==
    (IF N < 50 THEN <<NitrogenItem>> ELSE <<>>)
      \o (IF P < 50 THEN <<PhosphorusItem>> ELSE <<>>)
      \o (IF K < 50 THEN <<PotassiumItem>> ELSE <<>>)

\* lab values on both sides of the threshold
NPKValues == { 0, 49, 50, 51 }

\* C18: after a run, for every Lab fact with N, P and K,
\* fertilizer_npk_evaluation has fired and declared a Recommendation whose
\* fertilizer_recommendations list is not empty, holds the nitrogen item iff
\* N < 50, the phosphorus item iff P < 50 and the potassium item iff K < 50,
\* in that order, and is the single adequate item iff N, P and K are all
\* >= 50; a Lab fact that lacks one of N, P, K supports no firing of
\* fertilizer_npk_evaluation or crop_stage_specific.  The body gives that
\* list for every combination of values around the threshold.
C18_FertilizerList ==
    /\ \A N, P, K \in NPKValues :
          fertilizer_npk_evaluation(N, P, K) =
            << Recommendation([fertilizer_recommendations |->
                  IF LowItems(N, P, K) = <<>> THEN <<AdequateItem>>
                                              ELSE LowItems(N, P, K)]) >>
    /\ Quiescent =>
      \A l \in OfKind(facts, "Lab") :
        /\ HasNPK(facts[l]) =>
              /\ Firings("fertilizer_npk_evaluation", {l}) # {}
              /\ \A k \in Firings("fertilizer_npk_evaluation", {l}) :
                    LET N == facts[l].attrs["N"]
                        P == facts[l].attrs["P"]
                        K == facts[l].attrs["K"]
                        recs == fired[k].out[1].attrs["fertilizer_recommendations"]
                    IN  /\ Len(fired[k].out) = 1
                        /\ fired[k].out[1] \in Range(facts)
                        /\ recs # <<>>
                        /\ InSeq(NitrogenItem, recs) <=> N < 50
                        /\ InSeq(PhosphorusItem, recs) <=> P < 50
                        /\ InSeq(PotassiumItem, recs) <=> K < 50
                        /\ LowItems(N, P, K) # <<>> => recs = LowItems(N, P, K)
                        /\ recs = <<AdequateItem>>
                              <=> (N >= 50 /\ P >= 50 /\ K >= 50)
        /\ ~HasNPK(facts[l]) =>
              \A k \in DOMAIN fired :
                fired[k].rule \in {"fertilizer_npk_evaluation", "crop_stage_specific"}
                  => l \notin fired[k].facts

\* a finished run on a Lab fact at the threshold and one without K, declared
\* side by side
C18_Witness ==
    /\ Quiescent
    /\ \E l \in OfKind(facts, "Lab") :
          HasNPK(facts[l]) /\ facts[l].attrs["N"] = 50
            /\ Firings("fertilizer_npk_evaluation", {l}) # {}
    /\ \E l \in OfKind(facts, "Lab") : ~HasNPK(facts[l])

(* -------------------------------- C19 ---------------------------------- *)

\* reset, the given declarations in their order, and run
ReplaySeq(fseq, order) ==
    RunLoop(EngineDeclareAll(ResetEngine(order), fseq, order), order)

\* the sequences that hold the elements of fseq in another order
Reordered(fseq) ==
    { [ i \in DOMAIN fseq |-> fseq[p[i]] ] : p \in Permutations(DOMAIN fseq) }

AllOutputs(fs) == { fs[i] : i \in OutputIds(fs) }

\* C19: the Diagnosis and Recommendation facts present after a run are the
\* same for every order in which the caller could have declared the same
\* facts (the order of the firings may differ).
C19_OutputsIndependentOfOrder ==
    Quiescent =>
      \A sq \in Reordered(CallerSeq(facts)) :
        AllOutputs(ReplaySeq(sq, csn_order).facts) = AllOutputs(facts)

\* a finished run with several outputs for which another order of the same
\* declarations fires the rules in another order
C19_Witness ==
    /\ Quiescent
    /\ Cardinality(AllOutputs(facts)) >= 3
    /\ \E sq \in Reordered(CallerSeq(facts)) :
          LET r == ReplaySeq(sq, csn_order)
          IN  [ k \in DOMAIN r.fired |-> r.fired[k].rule ] # FiredRules

(* -------------------------------- C20 ---------------------------------- *)

DeclaresKind(k, kind) == \E j \in DOMAIN fired[k].out : fired[k].out[j].kind = kind

\* C20: after a run on caller facts of the input kinds only, at least one
\* Recommendation fact exists; every firing that declared a Diagnosis also
\* declared a Recommendation with the attribute treatment, and both are in
\* the fact base; when a Lab fact with N, P and K has been declared, no_data
\* has not fired.
C20_OutputNeverEmpty ==
    /\ (Quiescent /\ NoCallerOutput) => OfKind(facts, "Recommendation") # {}
    /\ \A k \in DOMAIN fired : DeclaresKind(k, "Diagnosis") =>
          /\ \E j \in DOMAIN fired[k].out :
                /\ fired[k].out[j].kind = "Recommendation"
                /\ Has(fired[k].out[j], "treatment")
          /\ Range(fired[k].out) \subseteq Range(facts)
    /\ (\E l \in OfKind(facts, "Lab") : HasNPK(facts[l])) => FiringsOf("no_data") = {}

\* a finished run on a Lab fact with nothing low and a Symptoms fact that
\* a diagnosis rule fired on
C20_Witness ==
    /\ Quiescent
    /\ NoCallerOutput
    /\ \E l \in OfKind(facts, "Lab") :
          HasNPK(facts[l]) /\ LowItems(facts[l].attrs["N"], facts[l].attrs["P"],
                                       facts[l].attrs["K"]) = <<>>
    /\ \E k \in DOMAIN fired : DeclaresKind(k, "Diagnosis")

====
